---- MODULE Spec2Model ----
(***************************************************************************)
(* Model of the backend of simple-app: the FastAPI surface                 *)
(* (backend/main.py), the request schema (backend/models/chat_models.py)   *)
(* and the Groq translator (backend/services/groq_service.py).             *)
(*                                                                         *)
(* Strings that the code measures or concatenates are sequences of pieces  *)
(* [text, len]: `text' is a literal (or the name of a run of characters)   *)
(* and `len' the number of characters it stands for.  Concatenation is \o, *)
(* the empty string is << >>, and len(s) is the sum of the pieces' len.    *)
(* Optional values are records [some, val].  Temperatures are in tenths.   *)
(* The server is one uvicorn process whose handlers are coroutines that    *)
(* never yield (the Groq client is the synchronous one), so one handler    *)
(* runs at a time; the only point where time passes inside a handler is    *)
(* the provider call.                                                      *)
(***************************************************************************)
EXTENDS Integers, Sequences, FiniteSets, TLC

\* ------------------------------------------------------------------ bounds
MaxHist == 2        \* longest history enumerated in a request body
MaxTurns == 2       \* prompts submitted in one Streamlit session

\* ------------------------------------------------------- program constants
MESSAGE_MIN_LENGTH == 1
MESSAGE_MAX_LENGTH == 4000
MAX_TOKENS_GE == 1
MAX_TOKENS_LE == 4000
TEMPERATURE_GE == 0
TEMPERATURE_LE == 20
CONTENT_MIN_LENGTH == 1
DEFAULT_MODEL == "mixtral-8x7b-32768"

HTTP_200_OK == 200
HTTP_422_UNPROCESSABLE_ENTITY == 422
HTTP_500_INTERNAL_SERVER_ERROR == 500
HTTP_503_SERVICE_UNAVAILABLE == 503

\* ------------------------------------------------------------------ strings
Lit(text, n) == <<[text |-> text, len |-> n]>>

EmptyStr == << >>

RECURSIVE StrLen(_)
StrLen(s) == IF s = << >> THEN 0 ELSE Head(s).len + StrLen(Tail(s))

\* Optional[T]
None == [some |-> FALSE, val |-> << >>]
Some(x) == [some |-> TRUE, val |-> x]

\* ---------------------------------------------------------- request bodies
ChatMessage(role, content) == [role |-> role, content |-> content]

ChatRequest(message, model, max_tokens, temperature, history) ==
    [message |-> message, model |-> model, max_tokens |-> max_tokens,
     temperature |-> temperature, history |-> history]

\* ChatResponse(response=..., model=..., tokens_used=..., success=...)
ChatResponse(response, model, tokens_used, success) ==
    [response |-> response, model |-> model,
     tokens_used |-> tokens_used, success |-> success]

\* The field constraints of ChatRequest and ChatMessage, as the sequence of
\* the fields pydantic reports (empty when the body is accepted).
HistoryErrors(history) ==
    IF history.some /\ \E i \in DOMAIN history.val :
                          StrLen(history.val[i].content) < CONTENT_MIN_LENGTH
    THEN <<"history">> ELSE << >>

\* max_length and le taken as strict bounds
Validate_Strict(body) ==
    (IF StrLen(body.message) < MESSAGE_MIN_LENGTH
        \/ StrLen(body.message) >= MESSAGE_MAX_LENGTH
     THEN <<"message">> ELSE << >>)
    \o (IF body.max_tokens < MAX_TOKENS_GE \/ body.max_tokens >= MAX_TOKENS_LE
        THEN <<"max_tokens">> ELSE << >>)
    \o (IF body.temperature < TEMPERATURE_GE \/ body.temperature > TEMPERATURE_LE
        THEN <<"temperature">> ELSE << >>)
    \o HistoryErrors(body.history)

Validate(body) ==
    (IF StrLen(body.message) < MESSAGE_MIN_LENGTH
        \/ StrLen(body.message) > MESSAGE_MAX_LENGTH
     THEN <<"message">> ELSE << >>)
    \o (IF body.max_tokens < MAX_TOKENS_GE \/ body.max_tokens > MAX_TOKENS_LE
        THEN <<"max_tokens">> ELSE << >>)
    \o (IF body.temperature < TEMPERATURE_GE \/ body.temperature > TEMPERATURE_LE
        THEN <<"temperature">> ELSE << >>)
    \o HistoryErrors(body.history)

\* ------------------------------------------------- GroqService (translator)
\* the loop of _format_messages over request.history
RECURSIVE AppendKnownRoles(_, _)
AppendKnownRoles(messages, history) ==
    IF history = << >> THEN messages
    ELSE LET msg == Head(history) IN
         AppendKnownRoles(
             IF msg.role \in {"system", "user", "assistant"}
             THEN Append(messages, [role |-> msg.role, content |-> msg.content])
             ELSE messages,
             Tail(history))

\* the filter without "system"
_format_messages_DropSystem(request) ==
    LET Known(msg) == msg.role \in {"user", "assistant"}
        messages == IF request.history.some
                    THEN SelectSeq(request.history.val, Known)
                    ELSE << >>
    IN Append(messages, [role |-> "user", content |-> request.message])

_format_messages(request) ==
    LET messages == IF request.history.some /\ request.history.val # << >>
                    THEN AppendKnownRoles(<< >>, request.history.val)
                    ELSE << >>
    IN Append(messages, [role |-> "user", content |-> request.message])

\* What the provider call produces: a completion object or an exception.
\* completion.choices[i].message.content and completion.usage.total_tokens
\* are Optional in the provider's reply.
Choice(content) == [message |-> [content |-> content]]

Usage(total_tokens) == Some([total_tokens |-> total_tokens])

Completion(choices, usage) ==
    [kind |-> "completion", choices |-> choices, usage |-> usage, desc |-> EmptyStr]

Raises(desc) ==
    [kind |-> "raise", choices |-> << >>, usage |-> None, desc |-> desc]

NoOutcome == [kind |-> "none", choices |-> << >>, usage |-> None, desc |-> EmptyStr]

\* str(e) of the exceptions raised while the reply is handled
IndexErrorStr == Lit("list index out of range", 23)

ValidationErrorStr(fields) ==
    Lit("validation error for ChatResponse", 33) \o
    [i \in DOMAIN fields |-> [text |-> fields[i], len |-> 1]]

ERROR_PREFIX == Lit("Error generating response: ", 27)

\* the error ChatResponse with str(e) alone as its text
ErrorResponse_NoPrefix(request, e) ==
    ChatResponse(e, request.model, 0, FALSE)

\* the error ChatResponse with the schema's default model
ErrorResponse_DefaultModel(request, e) ==
    ChatResponse(Lit("Error generating response: ", 27) \o e, "mixtral-8x7b-32768", 0, FALSE)

\* except Exception as e: the error ChatResponse
ErrorResponse(request, e) ==
    ChatResponse(ERROR_PREFIX \o e, request.model, 0, FALSE)

\* tokens_used without the `else 0'
TokensUsed_NoFallback(completion) ==
    IF completion.usage.some THEN completion.usage.val.total_tokens ELSE None

\* tokens_used = completion.usage.total_tokens if completion.usage else 0
TokensUsed(completion) ==
    IF completion.usage.some THEN completion.usage.val.total_tokens ELSE Some(0)

\* The fields of ChatResponse(...) that fail its validation (str and int
\* fields given None).
ChatResponseErrors(response_content, tokens_used) ==
    (IF response_content.some THEN << >> ELSE <<"response">>)
    \o (IF tokens_used.some THEN << >> ELSE <<"tokens_used">>)

\* return ChatResponse(response=response_content, ..., success=True)
SuccessResponse(request, response_content, tokens_used) ==
    ChatResponse(response_content.val, request.model, tokens_used.val, TRUE)

\* GroqService.chat_completion, from the provider's outcome on: the try
\* block and its except Exception handler.
GroqService_chat_completion(request, outcome) ==
    IF outcome.kind = "raise" THEN ErrorResponse(request, outcome.desc)
    ELSE IF outcome.choices = << >> THEN ErrorResponse(request, IndexErrorStr)
    ELSE LET response_content == outcome.choices[1].message.content
             tokens_used == TokensUsed(outcome)
             invalid == ChatResponseErrors(response_content, tokens_used)
         IN IF invalid # << >>
            THEN ErrorResponse(request, ValidationErrorStr(invalid))
            ELSE SuccessResponse(request, response_content, tokens_used)

get_available_models == <<"llama-3.1-8b-instant">>

\* ------------------------------------------------------------ HTTP replies
Reply(status, detail, body) == [status |-> status, detail |-> detail, body |-> body]

NoReply == Reply(0, EmptyStr, None)

NOT_INITIALIZED == Lit("Groq service not initialized", 28)

UNEXPECTED_PREFIX == Lit("Unexpected error: ", 18)

\* FastAPI's RequestValidationError reply for a body ChatRequest rejects
ValidationReply(errors) ==
    Reply(HTTP_422_UNPROCESSABLE_ENTITY,
          [i \in DOMAIN errors |-> [text |-> errors[i], len |-> 1]],
          None)

ServiceUnavailableReply == Reply(HTTP_503_SERVICE_UNAVAILABLE, NOT_INITIALIZED, None)

\* except Exception as e: HTTPException(500, f"Unexpected error: {str(e)}")
UnexpectedErrorReply(e) ==
    Reply(HTTP_500_INTERNAL_SERVER_ERROR, UNEXPECTED_PREFIX \o e, None)

\* the handler without the `if not response.success' branch
ChatReply_AlwaysOK(response) ==
    Reply(HTTP_200_OK, EmptyStr, Some(response))

\* main.chat_completion after the translator returned `response`
ChatReply(response) ==
    IF ~response.success
    THEN Reply(HTTP_500_INTERNAL_SERVER_ERROR, response.response, None)
    ELSE Reply(HTTP_200_OK, EmptyStr, Some(response))

ModelsReply(status, detail, models, handle) ==
    [status |-> status, detail |-> detail, models |-> models, handle |-> handle]

NoModelsReply == ModelsReply(0, EmptyStr, << >>, FALSE)

\* ------------------------------------------------------------------ inputs
LongRun == Lit("x*4000", 4000)

Messages == {EmptyStr, Lit("h", 1), LongRun, LongRun \o Lit("h", 1)}

Models == {DEFAULT_MODEL, "llama-3.1-8b-instant"}

MaxTokensValues == {0, 1, 4000, 4001}

TemperatureValues == {-1, 0, 20, 21}

Roles == {"system", "user", "assistant", "bogus"}

Contents == {EmptyStr, Lit("hi", 2), Lit("yo", 2)}

HistoryEntries == {ChatMessage(r, c) : r \in Roles, c \in Contents}

Histories ==
    {None} \cup
    {Some(h) : h \in UNION {[1..n -> HistoryEntries] : n \in 0..MaxHist}}

\* Bodies that vary the bounded scalar fields, and bodies that vary history.
Bodies ==
    {ChatRequest(m, DEFAULT_MODEL, t, x, Some(<< >>)) :
        m \in Messages, t \in MaxTokensValues, x \in TemperatureValues}
    \cup
    {ChatRequest(Lit("there", 5), mo, 1000, 7, h) : mo \in Models, h \in Histories}

GeneratedTexts == {None, Some(EmptyStr), Some(Lit("T", 1))}

ChoiceLists ==
    {<< >>} \cup {<<Choice(t)>> : t \in GeneratedTexts}
    \cup {<<Choice(Some(Lit("T", 1))), Choice(Some(Lit("U", 1)))>>}

Usages == {None, Usage(None), Usage(Some(5))}

FailureTexts == {Lit("Connection error.", 17), Lit("Error code: 401", 15)}

ProviderOutcomes ==
    {Completion(c, u) : c \in ChoiceLists, u \in Usages}
    \cup {Raises(d) : d \in FailureTexts}

NoRequest == ChatRequest(EmptyStr, DEFAULT_MODEL, 0, 0, None)

\* ------------------------------------------------------------------- state
VARIABLES
    GROQ_API_KEY,    \* config.GROQ_API_KEY, read from the environment
    phase,           \* "boot", "up" (startup_event returned), "failed" (it raised)
    groq_service,    \* the module-level handle: None or a GroqService
    pc,              \* POST /chat handler: "idle", "calling" (inside create), "done"
    request,         \* the body of the current POST /chat
    handle_seen,     \* what `if not groq_service' read for that request
    messages,        \* the messages argument of the provider call
    calls,           \* provider calls made for the current request
    outcome,         \* what the provider call produced
    response,        \* what GroqService.chat_completion returned, if called
    reply,           \* the HTTP reply to the current POST /chat
    modelsReply      \* the HTTP reply to the latest GET /models

\* The rest of the system: the configuration's debug flag and the reply of
\* the global exception handler, the clients of the HTTP surface, and the
\* Streamlit session (frontend/app.py).
VARIABLES
    DEBUG,             \* config.DEBUG
    faultReply,        \* the reply global_exception_handler produced last
    pending,           \* per client: the POST /chat it has sent, not yet handled
    owner,             \* the client whose request the handler is running
    results,           \* per client: the last exchange it completed
    st_messages,       \* st.session_state.messages, the transcript
    backend_status,    \* st.session_state.backend_status
    available_models,  \* st.session_state.available_models
    ui_pc,             \* the script run: "ready", or "sent" (inside requests.post)
    ui_payload,        \* the JSON payload of that requests.post
    turns              \* prompts submitted in this session

svcVars == <<DEBUG, faultReply, pending, owner, results>>

uiVars == <<st_messages, backend_status, available_models, ui_pc, ui_payload, turns>>

vars == <<GROQ_API_KEY, phase, groq_service, pc, request, handle_seen, messages,
          calls, outcome, response, reply, modelsReply, svcVars, uiVars>>

chatVars == <<pc, request, handle_seen, messages, calls, outcome, response, reply>>

\* ------------------------------------------- clients, faults, the session
Clients == {"c1", "c2"}

NoClient == "none"

\* One completed exchange, as its client saw it and as the handler ran it.
Exchange(done, req, msgs, o, resp, rep) ==
    [done |-> done, request |-> req, messages |-> msgs, outcome |-> o,
     response |-> resp, reply |-> rep]

NoExchange == Exchange(FALSE, NoRequest, << >>, NoOutcome, None, NoReply)

\* JSONResponse(status_code=500, content={"error": ..., "detail": ...}),
\* kept with the exception it answers.
FaultReply(exc, status, error, detail) ==
    [exc |-> exc, status |-> status, error |-> error, detail |-> detail]

NoFaultReply == FaultReply(EmptyStr, 0, EmptyStr, EmptyStr)

GENERIC_DETAIL == Lit("An unexpected error occurred", 28)

\* the handler with str(exc) as detail whatever config.DEBUG is
global_exception_handler_AlwaysDetail(request_, exc, debug) ==
    FaultReply(exc, HTTP_500_INTERNAL_SERVER_ERROR,
               Lit("Internal server error", 21), exc)

\* global_exception_handler(request, exc)
global_exception_handler(request_, exc, debug) ==
    FaultReply(exc, HTTP_500_INTERNAL_SERVER_ERROR,
               Lit("Internal server error", 21),
               IF debug THEN exc ELSE GENERIC_DETAIL)

\* StreamlitApp.initialize_session_state
FALLBACK_MODELS == <<"mixtral-8x7b-32768">>

ClientsInit ==
    /\ faultReply = NoFaultReply
    /\ pending = [c \in Clients |-> None]
    /\ owner = NoClient
    /\ results = [c \in Clients |-> NoExchange]

initialize_session_state ==
    /\ st_messages = << >>
    /\ available_models = FALLBACK_MODELS
    /\ backend_status = "unknown"
    /\ ui_pc = "ready"
    /\ ui_payload = NoRequest
    /\ turns = 0

BackendInit ==
    /\ GROQ_API_KEY \in {"", "gsk_key"}
    /\ phase = "boot"
    /\ groq_service = None
    /\ pc = "idle"
    /\ request = NoRequest
    /\ handle_seen = FALSE
    /\ messages = << >>
    /\ calls = 0
    /\ outcome = NoOutcome
    /\ response = None
    /\ reply = NoReply
    /\ modelsReply = NoModelsReply

Init ==
    /\ BackendInit
    /\ DEBUG = FALSE
    /\ ClientsInit
    /\ initialize_session_state

\* Config.validate_config
validate_config == GROQ_API_KEY # ""

\* GroqService.__init__: raises ValueError without a key
GroqService(api_key) ==
    IF api_key = "" THEN None ELSE Some([api_key |-> api_key])

\* A handler can start only when the event loop is not inside another one.
LoopFree == pc # "calling"

\* startup that builds the service without looking at the key
startup_event_Lazy ==
    /\ phase = "boot"
    /\ LoopFree
    /\ phase' = "up"
    /\ groq_service' = Some([api_key |-> GROQ_API_KEY])
    /\ UNCHANGED <<GROQ_API_KEY, chatVars, modelsReply>>

startup_event ==
    /\ phase = "boot"
    /\ LoopFree
    /\ IF ~validate_config \/ ~GroqService(GROQ_API_KEY).some
       THEN phase' = "failed" /\ UNCHANGED groq_service
       ELSE phase' = "up" /\ groq_service' = GroqService(GROQ_API_KEY)
    /\ UNCHANGED <<GROQ_API_KEY, chatVars, modelsReply>>

\* GET /models without the handle check: None.get_available_models() is an
\* AttributeError, answered by the global exception handler
get_models_NoCheck ==
    /\ phase \in {"boot", "up"}
    /\ LoopFree
    /\ modelsReply' =
          IF ~groq_service.some
          THEN ModelsReply(HTTP_500_INTERNAL_SERVER_ERROR,
                           Lit("Internal server error", 21), << >>, FALSE)
          ELSE ModelsReply(HTTP_200_OK, EmptyStr, get_available_models, TRUE)
    /\ UNCHANGED <<GROQ_API_KEY, phase, groq_service, chatVars>>

\* GET /models
get_models ==
    /\ phase \in {"boot", "up"}
    /\ LoopFree
    /\ modelsReply' =
          IF ~groq_service.some
          THEN ModelsReply(HTTP_503_SERVICE_UNAVAILABLE, NOT_INITIALIZED, << >>, FALSE)
          ELSE ModelsReply(HTTP_200_OK, EmptyStr, get_available_models, TRUE)
    /\ UNCHANGED <<GROQ_API_KEY, phase, groq_service, chatVars>>

\* The handler ends before the provider is called.
Answer(body, r) ==
    /\ pc' = "done"
    /\ reply' = r
    /\ messages' = << >>
    /\ calls' = 0
    /\ response' = None

\* POST /chat without the handle check
chat_completion_NoCheck(body) ==
    /\ phase \in {"boot", "up"}
    /\ pc = "idle"
    /\ request' = body
    /\ handle_seen' = groq_service.some
    /\ outcome' = NoOutcome
    /\ IF Validate(body) # << >>
       THEN Answer(body, ValidationReply(Validate(body)))
       ELSE /\ pc' = "calling"
            /\ messages' = _format_messages(body)
            /\ calls' = 1
            /\ response' = None
            /\ reply' = NoReply
    /\ UNCHANGED <<GROQ_API_KEY, phase, groq_service, modelsReply>>

\* POST /chat that keeps the request it is handling on the shared handle
chat_completion_StoresOnHandle(body) ==
    /\ phase \in {"boot", "up"}
    /\ pc = "idle"
    /\ request' = body
    /\ handle_seen' = groq_service.some
    /\ outcome' = NoOutcome
    /\ IF Validate(body) # << >>
       THEN Answer(body, ValidationReply(Validate(body))) /\ UNCHANGED groq_service
       ELSE IF ~groq_service.some
       THEN Answer(body, ServiceUnavailableReply) /\ UNCHANGED groq_service
       ELSE /\ pc' = "calling"
            /\ groq_service' = Some([api_key |-> groq_service.val.api_key,
                                     messages |-> _format_messages(body)])
            /\ messages' = _format_messages(body)
            /\ calls' = 1
            /\ response' = None
            /\ reply' = NoReply
    /\ UNCHANGED <<GROQ_API_KEY, phase, modelsReply>>

\* POST /chat up to the provider call: body validation by the ChatRequest
\* parameter, the handle check, then GroqService.chat_completion as far as
\* client.chat.completions.create.
chat_completion(body) ==
    /\ phase \in {"boot", "up"}
    /\ pc = "idle"
    /\ request' = body
    /\ handle_seen' = groq_service.some
    /\ outcome' = NoOutcome
    /\ IF Validate(body) # << >>
       THEN Answer(body, ValidationReply(Validate(body)))
       ELSE IF ~groq_service.some
       THEN Answer(body, ServiceUnavailableReply)
       ELSE /\ pc' = "calling"
            /\ messages' = _format_messages(body)
            /\ calls' = 1
            /\ response' = None
            /\ reply' = NoReply
    /\ UNCHANGED <<GROQ_API_KEY, phase, groq_service, modelsReply>>

\* a failed call is attempted once more before the failure is reported
ProviderReturns_Retry(o) ==
    /\ pc = "calling"
    /\ outcome' = o
    /\ IF ~GroqService_chat_completion(request, o).success /\ calls < 2
       THEN /\ calls' = calls + 1
            /\ UNCHANGED <<pc, response, reply>>
       ELSE /\ response' = Some(GroqService_chat_completion(request, o))
            /\ reply' = ChatReply(GroqService_chat_completion(request, o))
            /\ pc' = "done"
            /\ UNCHANGED calls
    /\ UNCHANGED <<GROQ_API_KEY, phase, groq_service, request, handle_seen,
                   messages, modelsReply>>

\* tokens_used reported as the running total the service keeps on itself
ProviderReturns_Cumulative(o) ==
    LET r == GroqService_chat_completion(request, o)
        spent == IF "spent" \in DOMAIN groq_service.val
                 THEN groq_service.val.spent ELSE 0
        total == IF spent + r.tokens_used > 10 THEN 10 ELSE spent + r.tokens_used
        counted == [r EXCEPT !.tokens_used = total]
    IN /\ pc = "calling"
       /\ outcome' = o
       /\ groq_service' = Some([api_key |-> groq_service.val.api_key, spent |-> total])
       /\ response' = Some(counted)
       /\ reply' = ChatReply(counted)
       /\ pc' = "done"
       /\ UNCHANGED <<GROQ_API_KEY, phase, request, handle_seen,
                      messages, calls, modelsReply>>

\* The provider call returns or raises; the handler runs to its end.
ProviderReturns(o) ==
    /\ pc = "calling"
    /\ outcome' = o
    /\ response' = Some(GroqService_chat_completion(request, o))
    /\ reply' = ChatReply(GroqService_chat_completion(request, o))
    /\ pc' = "done"
    /\ UNCHANGED <<GROQ_API_KEY, phase, groq_service, request, handle_seen,
                   messages, calls, modelsReply>>

\* The reply is sent and the handler's frame is gone.
ReplySent ==
    /\ pc = "done"
    /\ pc' = "idle"
    /\ request' = NoRequest
    /\ handle_seen' = FALSE
    /\ messages' = << >>
    /\ calls' = 0
    /\ outcome' = NoOutcome
    /\ response' = None
    /\ reply' = NoReply
    /\ UNCHANGED <<GROQ_API_KEY, phase, groq_service, modelsReply>>

\* A step of the backend alone.
Backend(A) == A /\ UNCHANGED <<svcVars, uiVars>>

Next ==
    \/ Backend(startup_event)
    \/ Backend(get_models)
    \/ \E body \in Bodies : Backend(chat_completion(body))
    \/ \E o \in ProviderOutcomes : Backend(ProviderReturns(o))
    \/ Backend(ReplySent)

Spec == Init /\ [][Next]_vars

\* The code's own steps are taken when enabled; the provider's answer is
\* the environment's and nothing in the code forces it.
FairSpec == Spec /\ WF_vars(Backend(startup_event)) /\ WF_vars(Backend(ReplySent))

\* ------------------------------------------- several clients of one service
SvcBodies ==
    {ChatRequest(Lit("there", 5), DEFAULT_MODEL, 1000, 7, Some(<< >>)),
     ChatRequest(Lit("there", 5), DEFAULT_MODEL, 1000, 7,
                 Some(<<ChatMessage("bogus", Lit("yo", 2)), ChatMessage("user", Lit("hi", 2))>>)),
     ChatRequest(EmptyStr, DEFAULT_MODEL, 1000, 7, Some(<< >>))}

SvcOutcomes ==
    {Completion(<<Choice(Some(Lit("T", 1)))>>, Usage(Some(5))),
     Completion(<<Choice(Some(Lit("T", 1)))>>, None),
     Raises(Lit("Connection error.", 17))}

FaultTexts == {Lit("boom", 4), Lit("password=hunter2", 16)}

SvcInit ==
    /\ BackendInit
    /\ DEBUG \in BOOLEAN
    /\ ClientsInit
    /\ initialize_session_state

\* Client c sends a POST /chat; it waits in the server until the event loop
\* is free to run its handler.
Arrive(c, body) ==
    /\ phase \in {"boot", "up"}
    /\ ~pending[c].some
    /\ owner # c
    /\ pending' = [pending EXCEPT ![c] = Some(body)]
    /\ UNCHANGED <<GROQ_API_KEY, phase, groq_service, chatVars, modelsReply,
                   DEBUG, faultReply, owner, results, uiVars>>

\* The event loop starts the handler for c's request.
Dispatch(c) ==
    /\ pending[c].some
    /\ chat_completion(pending[c].val)
    /\ owner' = c
    /\ pending' = [pending EXCEPT ![c] = None]
    /\ UNCHANGED <<DEBUG, faultReply, results, uiVars>>

\* The provider call of the running handler returns.
Return(o) ==
    /\ ProviderReturns(o)
    /\ UNCHANGED <<svcVars, uiVars>>

\* The reply reaches the client that sent the request.
Deliver ==
    /\ owner # NoClient
    /\ results' = [results EXCEPT
                      ![owner] = Exchange(TRUE, request, messages, outcome, response, reply)]
    /\ owner' = NoClient
    /\ ReplySent
    /\ UNCHANGED <<DEBUG, faultReply, pending, uiVars>>

SvcNext ==
    \/ Backend(startup_event)
    \/ \E c \in Clients, body \in SvcBodies : Arrive(c, body)
    \/ \E c \in Clients : Dispatch(c)
    \/ \E o \in SvcOutcomes : Return(o)
    \/ Deliver

SvcSpec == SvcInit /\ [][SvcNext]_vars

\* ----------------------------------------------- faults outside any handler
\* An exception that no handler catches reaches global_exception_handler.
unhandled_fault(exc) ==
    /\ phase \in {"boot", "up"}
    /\ LoopFree
    /\ faultReply' = global_exception_handler(request, exc, DEBUG)
    /\ UNCHANGED <<GROQ_API_KEY, phase, groq_service, chatVars, modelsReply,
                   DEBUG, pending, owner, results, uiVars>>

FaultNext ==
    \/ Backend(startup_event)
    \/ Backend(get_models)
    \/ \E body \in SvcBodies : Backend(chat_completion(body))
    \/ \E o \in SvcOutcomes : Backend(ProviderReturns(o))
    \/ Backend(ReplySent)
    \/ \E exc \in FaultTexts : unhandled_fault(exc)

FaultSpec == SvcInit /\ [][FaultNext]_vars

\* ------------------------------------------------- the Streamlit session
\* What the user can type and pick, and what a GET or POST can end in
\* without an HTTP reply (requests raises: refused, timed out).
UIPrompts == {Lit("h", 1), Lit("yo", 2)}

UISettings == {[max_tokens |-> 1000, temperature |-> 7]}

UIOutcomes ==
    {Completion(<<Choice(Some(Lit("T", 1)))>>, Usage(Some(5))),
     Completion(<<Choice(Some(EmptyStr))>>, Usage(Some(5))),
     Raises(Lit("Connection error.", 17))}

HealthResults == {"200", "502", "raise"}

TransportErrors == {Lit("Read timed out.", 15)}

UI == "ui"

\* The backend answers a GET only while it is up and its event loop is free.
Serving == phase = "up" /\ LoopFree

\* StreamlitApp.check_backend_health, given how GET /health ended
check_backend_health(h) ==
    backend_status' =
        (IF h = "200" THEN "healthy"
         ELSE IF h = "502" THEN "unhealthy"
         ELSE "error: Connection refused")

\* StreamlitApp.fetch_available_models; ok: GET /models got an HTTP reply
fetch_available_models(ok) ==
    IF ok
    THEN /\ get_models
         /\ available_models' =
               (IF modelsReply'.status = 200 THEN modelsReply'.models
                ELSE available_models)
    ELSE UNCHANGED <<GROQ_API_KEY, phase, groq_service, chatVars, modelsReply,
                     available_models>>

\* The first script run of the session: render_main_interface finds the
\* status "unknown", checks the backend and, if healthy, fetches the models.
first_run(h, ok) ==
    /\ backend_status = "unknown"
    /\ ui_pc = "ready"
    /\ h = "200" => Serving
    /\ ok => Serving
    /\ check_backend_health(h)
    /\ IF h = "200" THEN fetch_available_models(ok) ELSE fetch_available_models(FALSE)
    /\ UNCHANGED <<svcVars, st_messages, ui_pc, ui_payload, turns>>

\* The widgets exist once the first run has rendered them.
Rendered == backend_status # "unknown" /\ ui_pc = "ready"

\* "Refresh Status" that also starts the session state afresh
refresh_status_Reinit(h) ==
    /\ Rendered
    /\ h = "200" => Serving
    /\ check_backend_health(h)
    /\ st_messages' = << >>
    /\ UNCHANGED <<GROQ_API_KEY, phase, groq_service, chatVars, modelsReply, svcVars,
                   available_models, ui_pc, ui_payload, turns>>

\* "Refresh Status" in render_header
refresh_status(h) ==
    /\ Rendered
    /\ h = "200" => Serving
    /\ check_backend_health(h)
    /\ UNCHANGED <<GROQ_API_KEY, phase, groq_service, chatVars, modelsReply, svcVars,
                   st_messages, available_models, ui_pc, ui_payload, turns>>

\* "Refresh Models" in render_main_interface
refresh_models(ok) ==
    /\ Rendered
    /\ ok => Serving
    /\ fetch_available_models(ok)
    /\ UNCHANGED <<svcVars, st_messages, backend_status, ui_pc, ui_payload, turns>>

\* "Clear Chat" in render_chat_settings
clear_chat ==
    /\ Rendered
    /\ st_messages' = << >>
    /\ UNCHANGED <<GROQ_API_KEY, phase, groq_service, chatVars, modelsReply, svcVars,
                   backend_status, available_models, ui_pc, ui_payload, turns>>

\* the loop of send_chat_request over st.session_state.messages
RECURSIVE ProjectHistory(_, _)
ProjectHistory(history, msgs) ==
    IF msgs = << >> THEN history
    ELSE LET msg == Head(msgs) IN
         ProjectHistory(
             IF msg.role \in {"user", "assistant"}
             THEN Append(history, [role |-> msg.role, content |-> msg.content])
             ELSE history,
             Tail(msgs))

\* the payload of send_chat_request(message, model, settings)
Payload(message, model, settings, msgs) ==
    ChatRequest(message, model, settings.max_tokens, settings.temperature,
                Some(ProjectHistory(<< >>, msgs)))

\* the prompt handled without looking at backend_status
submit_NoStatusCheck(prompt, model, settings) ==
    /\ Rendered
    /\ turns < MaxTurns
    /\ turns' = turns + 1
    /\ st_messages' = Append(st_messages, [role |-> "user", content |-> prompt])
    /\ ui_payload' = Payload(prompt, model, settings, st_messages')
    /\ ui_pc' = "sent"
    /\ UNCHANGED <<GROQ_API_KEY, phase, groq_service, chatVars, modelsReply, svcVars,
                   backend_status, available_models>>

\* st.chat_input returned `prompt`: render_main_interface up to requests.post
submit(prompt, model, settings) ==
    /\ Rendered
    /\ turns < MaxTurns
    /\ turns' = turns + 1
    /\ IF backend_status # "healthy"
       THEN UNCHANGED <<st_messages, ui_pc, ui_payload>>
       ELSE /\ st_messages' = Append(st_messages, [role |-> "user", content |-> prompt])
            /\ ui_payload' = Payload(prompt, model, settings, st_messages')
            /\ ui_pc' = "sent"
    /\ UNCHANGED <<GROQ_API_KEY, phase, groq_service, chatVars, modelsReply, svcVars,
                   backend_status, available_models>>

\* The POST reaches the backend and its handler starts.
ui_post ==
    /\ ui_pc = "sent"
    /\ owner = NoClient
    /\ phase = "up"
    /\ chat_completion(ui_payload)
    /\ owner' = UI
    /\ UNCHANGED <<DEBUG, faultReply, pending, results, uiVars>>

\* What send_chat_request returns for an HTTP reply.
ChatResult(r) ==
    IF r.status = 200
    THEN [error |-> None, response |-> r.body.val.response]
    ELSE [error |-> Some(Lit("API Error: ", 11) \o r.detail), response |-> EmptyStr]

\* What send_chat_request returns when requests.post raises.
RequestFailed(e) ==
    [error |-> Some(Lit("Request failed: ", 16) \o e), response |-> EmptyStr]

\* render_main_interface after send_chat_request returned `result`
AssistantEntry(result) ==
    IF result.error.some
    THEN [role |-> "assistant", content |-> Lit("Error: ", 7) \o result.error.val]
    ELSE [role |-> "assistant", content |-> result.response]

\* an error result shown with st.error only, not added to the transcript
receive_ErrorNotKept ==
    /\ ui_pc = "sent"
    /\ owner = UI
    /\ pc = "done"
    /\ st_messages' = (IF ChatResult(reply).error.some THEN st_messages
                       ELSE Append(st_messages, AssistantEntry(ChatResult(reply))))
    /\ ui_pc' = "ready"
    /\ ui_payload' = NoRequest
    /\ owner' = NoClient
    /\ ReplySent
    /\ UNCHANGED <<DEBUG, faultReply, pending, results,
                   backend_status, available_models, turns>>

\* The HTTP reply arrives and the script run finishes.
receive ==
    /\ ui_pc = "sent"
    /\ owner = UI
    /\ pc = "done"
    /\ st_messages' = Append(st_messages, AssistantEntry(ChatResult(reply)))
    /\ ui_pc' = "ready"
    /\ ui_payload' = NoRequest
    /\ owner' = NoClient
    /\ ReplySent
    /\ UNCHANGED <<DEBUG, faultReply, pending, results,
                   backend_status, available_models, turns>>

\* requests.post raises (no connection, or no reply within its timeout);
\* the backend, if it got the request, goes on with it.
request_failed(e) ==
    /\ ui_pc = "sent"
    /\ st_messages' = Append(st_messages, AssistantEntry(RequestFailed(e)))
    /\ ui_pc' = "ready"
    /\ ui_payload' = NoRequest
    /\ owner' = NoClient
    /\ UNCHANGED <<GROQ_API_KEY, phase, groq_service, chatVars, modelsReply,
                   DEBUG, faultReply, pending, results,
                   backend_status, available_models, turns>>

\* The reply to a request whose client has given up is dropped.
drop_reply ==
    /\ owner = NoClient
    /\ ReplySent
    /\ UNCHANGED <<svcVars, uiVars>>

UINext ==
    \/ Backend(startup_event)
    \/ \E h \in HealthResults, ok \in BOOLEAN : first_run(h, ok)
    \/ \E h \in HealthResults : refresh_status(h)
    \/ \E ok \in BOOLEAN : refresh_models(ok)
    \/ clear_chat
    \/ \E prompt \in UIPrompts, settings \in UISettings :
          \E i \in DOMAIN available_models : submit(prompt, available_models[i], settings)
    \/ ui_post
    \/ \E o \in UIOutcomes : Return(o)
    \/ receive
    \/ \E e \in TransportErrors : request_failed(e)
    \/ drop_reply

UISpec == Init /\ [][UINext]_vars

\* ------------------------------------------------------------------ claims
\* The provider call raised, or its reply cannot be turned into a
\* ChatResponse: no choices, no text, or a usage without a total.
ProviderFailed(o) ==
    \/ o.kind = "raise"
    \/ /\ o.kind = "completion"
       /\ \/ o.choices = << >>
          \/ ~o.choices[1].message.content.some
          \/ (o.usage.some /\ ~o.usage.val.total_tokens.some)

\* The bounds of ChatRequest as the specification states them.
WithinBounds(r) ==
    /\ StrLen(r.message) \in 1..4000
    /\ r.max_tokens \in 1..4000
    /\ r.temperature \in 0..20
    /\ r.history.some =>
          \A i \in DOMAIN r.history.val : r.history.val[i].content # << >>

C2_OutboundMessages ==
    calls = 1 =>
        LET h == IF request.history.some THEN request.history.val ELSE << >>
            kept == {i \in DOMAIN h : h[i].role \in {"system", "user", "assistant"}}
            rank(i) == Cardinality({j \in kept : j <= i})
        IN /\ Len(messages) = Cardinality(kept) + 1
           /\ \A i \in kept :
                 messages[rank(i)] = [role |-> h[i].role, content |-> h[i].content]
           /\ messages[Len(messages)] = [role |-> "user", content |-> request.message]

C2_Witness ==
    /\ calls = 1
    /\ request.history.some
    /\ Len(request.history.val) = 2
    /\ request.history.val[1].role = "bogus"
    /\ request.history.val[2].role = "user"
    /\ Len(messages) = 2

\* C3: whatever the provider's outcome, the ChatResponse that
\* GroqService.chat_completion returns carries the request's model.
C3_ModelEchoed ==
    (pc = "done" /\ response.some) => response.val.model = request.model

C3_Witness ==
    /\ pc = "done"
    /\ response.some
    /\ ~response.val.success
    /\ request.model # "mixtral-8x7b-32768"
    /\ response.val.model = request.model

\* C4: when the provider call succeeds with text T and usage total N the
\* result is ChatResponse{response: T, model: request.model, tokens_used: N,
\* success: true}; without usage information tokens_used is 0 and success
\* is still true.
C4_SuccessResponse ==
    (/\ pc = "done"
     /\ outcome.kind = "completion"
     /\ outcome.choices # << >>
     /\ outcome.choices[1].message.content.some
     /\ outcome.usage.some => outcome.usage.val.total_tokens.some) =>
        /\ response.some
        /\ response.val.response = outcome.choices[1].message.content.val
        /\ response.val.model = request.model
        /\ response.val.tokens_used =
              (IF outcome.usage.some THEN outcome.usage.val.total_tokens.val ELSE 0)
        /\ response.val.success = TRUE

C4_Witness ==
    /\ pc = "done"
    /\ outcome.kind = "completion"
    /\ outcome.choices # << >>
    /\ outcome.choices[1].message.content.some
    /\ ~outcome.usage.some
    /\ response.some
    /\ response.val.success
    /\ response.val.tokens_used = 0

\* C5 (as claimed): while the handle is None every POST /chat is answered
\* with 503 without the Translator or the provider being invoked, and no
\* provider call is outstanding while the handle is None.
C5_Every503 ==
    /\ (pc # "idle" /\ ~handle_seen) =>
          /\ pc = "done"
          /\ reply.status = 503
          /\ calls = 0
          /\ messages = << >>
          /\ ~response.some
    /\ pc = "calling" => groq_service.some

\* C5 (amended): while the handle is None a POST /chat whose body passes
\* the ChatRequest validation is answered with 503, and one whose body
\* fails it with 422 by the validation that runs first; neither invokes the
\* Translator or the provider, and no provider call is outstanding while
\* the handle is None.
C5_NotReady ==
    /\ (pc # "idle" /\ ~handle_seen) =>
          /\ pc = "done"
          /\ reply.status = (IF WithinBounds(request) THEN 503 ELSE 422)
          /\ calls = 0
          /\ messages = << >>
          /\ ~response.some
    /\ pc = "calling" => groq_service.some

C5_Witness ==
    /\ pc = "done"
    /\ ~handle_seen
    /\ ~groq_service.some
    /\ WithinBounds(request)
    /\ reply.status = 503

\* C6: with the handle set, POST /chat answers 200 with the ChatResponse
\* exactly when the Translator reports success; a success=false result is
\* answered 500 with the ChatResponse's response text as detail, and that
\* reply differs from every reply the unexpected-exception branch produces.
C6_ProviderFailureReply ==
    (pc = "done" /\ handle_seen) =>
        /\ reply.status = 200 <=> (response.some /\ response.val.success)
        /\ reply.status = 200 => reply.body = Some(response.val)
        /\ (response.some /\ ~response.val.success) =>
              /\ reply.status = 500
              /\ reply.detail = response.val.response
              /\ \A e \in {EmptyStr, reply.detail, Tail(reply.detail),
                           Lit("Connection error.", 17), Lit("Error code: 401", 15)} :
                    reply # UnexpectedErrorReply(e)

C6_Witness ==
    /\ pc = "done"
    /\ handle_seen
    /\ response.some
    /\ ~response.val.success
    /\ reply.status = 500
    /\ reply.detail = response.val.response

\* C7: a body that violates a ChatRequest bound is rejected with a 4xx
\* status and no provider call is made for it; a body within all bounds is
\* never answered with a validation error.
C7_Validation ==
    pc # "idle" =>
        IF WithinBounds(request)
        THEN ~(reply.status \in 400..499)
        ELSE /\ pc = "done"
             /\ reply.status \in 400..499
             /\ calls = 0
             /\ messages = << >>
             /\ outcome.kind = "none"

C7_Witness ==
    /\ pc = "done"
    /\ groq_service.some
    /\ StrLen(request.message) = 4001
    /\ reply.status = 422
    /\ calls = 0

\* C8: GET /models answers 503 whenever the handle is still None and, once
\* the handle is set, 200 with the one static list, whatever /chat requests
\* were handled in between.
C8_Models ==
    /\ modelsReply.status # 0 =>
          IF modelsReply.handle
          THEN /\ modelsReply.status = 200
               /\ modelsReply.models = <<"llama-3.1-8b-instant">>
          ELSE modelsReply.status = 503
    /\ ~groq_service.some => modelsReply.status \in {0, 503}
    /\ modelsReply.handle => groq_service.some

C8_Witness ==
    /\ modelsReply.status = 200
    /\ pc = "done"
    /\ response.some
    /\ ~response.val.success

\* C9: a chat request causes at most one provider call, and a failed call
\* is reported in the reply (500 with the failure text), never dropped.
C9_SingleAttempt ==
    /\ calls <= 1
    /\ pc = "calling" => calls = 1
    /\ (pc = "done" /\ calls = 1 /\ ProviderFailed(outcome)) =>
          /\ reply.status = 500
          /\ Len(reply.detail) > 1
          /\ outcome.kind = "raise" =>
                reply.detail = Lit("Error generating response: ", 27) \o outcome.desc

C9_Witness ==
    /\ pc = "done"
    /\ calls = 1
    /\ outcome.kind = "raise"
    /\ reply.status = 500

\* C10: the provider call is bounded by a timeout, so a chat_completion that
\* has called the provider eventually returns.
C10_CallReturns == (pc = "calling") ~> (pc = "done")

\* C14: without an API key startup raises before the handle is set: the
\* service never comes up, the handle stays None and no chat request is ever
\* passed to the Translator or the provider.
C14_NoKeyNoStart ==
    GROQ_API_KEY = "" =>
        /\ phase \in {"boot", "failed"}
        /\ ~groq_service.some
        /\ pc # "calling"
        /\ calls = 0
        /\ ~response.some
        /\ reply.status \in {0, 422, 503}

C14_Witness ==
    /\ GROQ_API_KEY = ""
    /\ phase = "failed"
    /\ ~groq_service.some

\* C15: with several chat requests in flight on the one handle, the
\* outbound messages, the ChatResponse and the reply of each are fixed by
\* its own request and its own provider result; handling a request never
\* changes the handle, a waiting request or another client's result.
C15_NoInterference ==
    /\ [](\A c \in Clients, d \in Clients :
            (results[c].done /\ results[d].done
             /\ results[c].request = results[d].request
             /\ results[c].outcome = results[d].outcome) =>
                (results[c].messages = results[d].messages
                 /\ results[c].response = results[d].response
                 /\ results[c].reply = results[d].reply))
    /\ [][/\ groq_service.some => groq_service' = groq_service
          /\ \A c \in Clients :
                /\ (pending[c].some /\ pending'[c].some) => pending'[c] = pending[c]
                /\ (owner' = c /\ owner # c) => request' = pending[c].val
                /\ (owner = c /\ owner' = c) => request' = request
                /\ results'[c] # results[c] =>
                      (owner = c /\ results'[c].request = request
                       /\ results'[c].outcome = outcome)]_vars

C15_Witness ==
    /\ pc = "calling"
    /\ owner = "c1"
    /\ pending["c2"].some
    /\ pending["c2"].val # request
    /\ results["c2"].done
    /\ results["c2"].response.some

\* C16: a request repeated with the same provider result gets the same
\* ChatResponse as before, whatever was handled in between.
C16_Idempotent ==
    \A c \in Clients :
        (/\ results[c].done
         /\ pc = "done"
         /\ results[c].request = request
         /\ results[c].outcome = outcome) => results[c].response = response

C16_Witness ==
    /\ pc = "done"
    /\ owner = "c2"
    /\ results["c1"].done
    /\ results["c1"].request = request
    /\ results["c1"].outcome = outcome
    /\ results["c2"].done
    /\ results["c2"].request # request
    /\ response.some
    /\ response.val.success
    /\ response.val.tokens_used = 5

\* C17: a fault that no handler catches is answered 500 with
\* {error: "Internal server error", detail}: detail is the fault's message
\* when the debug flag is on and the fixed generic text when it is off, so
\* with debug off nothing of the message is in the reply.
C17_FaultReply ==
    faultReply # NoFaultReply =>
        /\ faultReply.status = 500
        /\ faultReply.error = Lit("Internal server error", 21)
        /\ faultReply.detail =
              (IF DEBUG THEN faultReply.exc
               ELSE Lit("An unexpected error occurred", 28))
        /\ ~DEBUG =>
              \A i \in DOMAIN faultReply.detail, j \in DOMAIN faultReply.exc :
                  faultReply.detail[i] # faultReply.exc[j]

C17_Witness ==
    /\ ~DEBUG
    /\ faultReply.status = 500
    /\ faultReply.exc = Lit("password=hunter2", 16)
    /\ faultReply.detail = Lit("An unexpected error occurred", 28)

\* A transcript entry synthesised after a failed call.
IsErrorPlaceholder(m) ==
    /\ m.role = "assistant"
    /\ m.content # << >>
    /\ m.content[1] = [text |-> "Error: ", len |-> 7]

IsPrefix(a, b) == Len(a) <= Len(b) /\ SubSeq(b, 1, Len(a)) = a

\* C11: the history the UI sends is the transcript without its error
\* placeholders, in transcript order: no placeholder is ever sent.
C11_NoPlaceholderSent ==
    ui_pc = "sent" =>
        LET NotPlaceholder(m) == ~IsErrorPlaceholder(m)
        IN ui_payload.history.val = SelectSeq(st_messages, NotPlaceholder)

\* C12: a turn the UI sent gets exactly one assistant entry when its result
\* arrives: the response text of a 200 reply, "Error: API Error: <detail>"
\* for any other reply, "Error: Request failed: <e>" when requests.post
\* raised; the transcript is user/assistant pairs, never a turn with no or
\* two assistant entries.
C12_OneAssistantEntry ==
    /\ [](/\ Len(st_messages) % 2 = (IF ui_pc = "sent" THEN 1 ELSE 0)
          /\ \A i \in DOMAIN st_messages :
                st_messages[i].role = (IF i % 2 = 1 THEN "user" ELSE "assistant"))
    /\ [][(ui_pc = "sent" /\ ui_pc' = "ready") =>
            /\ Len(st_messages') = Len(st_messages) + 1
            /\ SubSeq(st_messages', 1, Len(st_messages)) = st_messages
            /\ LET e == st_messages'[Len(st_messages')] IN
               /\ e.role = "assistant"
               /\ IF pc = "done" /\ pc' = "idle" /\ owner = UI
                  THEN e.content =
                         (IF reply.status = 200 THEN reply.body.val.response
                          ELSE Lit("Error: ", 7) \o Lit("API Error: ", 11) \o reply.detail)
                  ELSE /\ Len(e.content) = 3
                       /\ SubSeq(e.content, 1, 2) =
                             Lit("Error: ", 7) \o Lit("Request failed: ", 16)]_vars

C12_Witness ==
    /\ ui_pc = "ready"
    /\ Len(st_messages) = 4
    /\ st_messages[2].content = Lit("T", 1)
    /\ IsErrorPlaceholder(st_messages[4])
    /\ st_messages[4].content[2] = [text |-> "API Error: ", len |-> 11]

\* C13: between explicit clears the transcript only grows at its end: every
\* step leaves the earlier transcript a prefix of the later one, except the
\* Clear Chat action, which empties it.
C13_AppendOnly ==
    [][IsPrefix(st_messages, st_messages') \/ (clear_chat /\ st_messages' = << >>)]_vars

C13_Witness ==
    /\ Len(st_messages) = 4
    /\ backend_status = "unhealthy"
    /\ available_models = <<"llama-3.1-8b-instant">>

\* C18: the messages the provider gets for a new turn are the prior turns
\* of the transcript followed by the new user message once; the history in
\* the UI's payload is the transcript before the turn being submitted.
C18_NewTurnOnce ==
    /\ ui_pc = "sent" =>
          ui_payload.history.val = SubSeq(st_messages, 1, Len(st_messages) - 1)
    /\ (owner = UI /\ pc = "calling") => messages = st_messages

\* C19: every history the UI sends passes the ChatRequest validation: each
\* entry has a non-empty content and the role user or assistant.
C19_HistoryValid ==
    ui_pc = "sent" =>
        \A i \in DOMAIN ui_payload.history.val :
            /\ ui_payload.history.val[i].content # << >>
            /\ ui_payload.history.val[i].role \in {"user", "assistant"}

\* C20: a chat request is sent only while backend_status is "healthy"; a
\* prompt submitted in any other status sends nothing and leaves the
\* transcript as it was.
C20_OnlyWhenHealthy ==
    /\ [](ui_pc = "sent" => backend_status = "healthy")
    /\ [][/\ (owner' = UI /\ owner # UI) => backend_status = "healthy"
          /\ turns' # turns =>
                IF backend_status = "healthy"
                THEN /\ ui_pc' = "sent"
                     /\ Len(st_messages') = Len(st_messages) + 1
                ELSE /\ st_messages' = st_messages
                     /\ ui_pc' = "ready"
                     /\ ui_payload' = ui_payload
                     /\ <<pc, request, calls, messages>>' = <<pc, request, calls, messages>>]_vars

C20_Witness ==
    /\ phase = "failed"
    /\ backend_status = "error: Connection refused"
    /\ turns = 1
    /\ st_messages = << >>
    /\ ui_pc = "ready"

====
